---- MODULE Spec2Model ----
(***************************************************************************)
(* Model of the adaptive particle filter of src/pf/pf.c.                   *)
(*                                                                         *)
(* A pose is abstracted to its x coordinate, an integer number of          *)
(* half-metres (y and heading are held at 0).  Weights are exact rationals *)
(* <<numerator, denominator>> in lowest terms.  The kd-tree and the        *)
(* discrete sampler are not part of pf.c; they are modelled from the       *)
(* specification (section 4.1, 4.2).                                       *)
(***************************************************************************)
EXTENDS Integers, Sequences, FiniteSets, TLC

VARIABLES
    min_samples,        \* pf->min_samples
    max_samples,        \* pf->max_samples
    overHead_samples,   \* pf->overHead_samples
    current_set,        \* pf->current_set
    sets,               \* pf->sets[0..1]
    status,             \* "ok", "aborted" (process ended) or "corrupt" (undefined behaviour went on)
    fault,              \* what ended the defined execution, "none" while status = "ok"
    lastOp,             \* name of the last operation that returned
    retval,             \* what the last operation returned to its caller
    resample_parity,    \* number of completed resample calls, modulo 2
    kin, kout,          \* input and result of the resample-limit evaluation (SpecLimit)
    out,                \* the last cluster query: its arguments, result and outputs (SpecQuery)
    sampler             \* the map-constrained uniform sampler in progress (SpecSampler)

vars ==
    <<min_samples, max_samples, overHead_samples, current_set, sets, status,
      fault, lastOp, retval, resample_parity, kin, kout, out, sampler>>

-----------------------------------------------------------------------------
(* Bounds of the model *)

\* the arguments the filter is constructed with: min_samples, max_samples
\* and overHead_samples
MinSamples ==
    1

MaxSamples ==
    2

OverHead ==
    1

\* largest number of hypotheses handed to the hypothesis-guided resamplers
MaxHyp ==
    2

\* how far beyond max_samples the caller's count arguments range
ArgSlack ==
    1

\* largest weight the sensor callback writes
SensorMaxWeight ==
    1

\* largest sample set handed to pf_cluster_set (SpecCluster)
MaxClusterSamples ==
    102

-----------------------------------------------------------------------------
(* Exact rational arithmetic for the weights (double in the source) *)

RECURSIVE Gcd(_, _)
Gcd(a, b) ==
    IF b = 0 THEN a ELSE Gcd(b, a % b)

Abs(a) ==
    IF a < 0 THEN -a ELSE a

Rat(n, d) ==
    LET g == Gcd(Abs(n), Abs(d))
        s == IF d < 0 THEN -1 ELSE 1
    IN  <<(s * n) \div g, (s * d) \div g>>

Zero ==
    <<0, 1>>

One ==
    <<1, 1>>

RAdd(p, q) ==
    Rat(p[1] * q[2] + q[1] * p[2], p[2] * q[2])

RMul(p, q) ==
    Rat(p[1] * q[1], p[2] * q[2])

RDiv(p, q) ==
    Rat(p[1] * q[2], p[2] * q[1])

RLeq(p, q) ==
    p[1] * q[2] <= q[1] * p[2]

RECURSIVE RSumRange(_, _, _)
\* f[lo] + ... + f[hi], added up by halves to keep the evaluation shallow
RSumRange(f, lo, hi) ==
    IF lo > hi THEN Zero
    ELSE IF lo = hi THEN f[lo]
    ELSE RAdd(RSumRange(f, lo, (lo + hi) \div 2),
              RSumRange(f, (lo + hi) \div 2 + 1, hi))

\* f[1] + ... + f[n]
RSum(f, n) ==
    RSumRange(f, 1, n)

\* the sum of the weights of a sequence of samples
WeightSum(samples) ==
    RSum([i \in 1..Len(samples) |-> samples[i].weight], Len(samples))

-----------------------------------------------------------------------------
(* The world and the map *)

\* the x coordinates a pose can take, in half-metres
Poses ==
    {-2, 0}

\* the maps the caller passes, one metre (two half-metres) per cell, cells
\* listed from index 0.  In the first, x = -2 lies on an occupied cell (+1)
\* and x = 0 on a free one (-1); in the second, x = 0 lies on the only
\* cell, which is free, and x = -2 outside the map.
Maps ==
    {[size_x |-> 2, scale |-> 2, origin_x |-> 0, cells |-> <<1, -1>>],
     [size_x |-> 1, scale |-> 2, origin_x |-> 0, cells |-> <<-1>>]}

\* floor((x - origin_x) / scale + 0.5) + size_x / 2
MAP_GXWX(map, x) ==
    ((2 * (x - map.origin_x) + map.scale) \div (2 * map.scale)) + (map.size_x \div 2)

MAP_VALID(map, i) ==
    (i >= 0) /\ (i < map.size_x)

\* a faulty acceptance test: the state of the cell is not looked at
MapFreeAnyState(map, x) ==
    MAP_VALID(map, MAP_GXWX(map, x))

\* the acceptance test of the map-constrained samplers
MapFree(map, x) ==
    /\ MAP_VALID(map, MAP_GXWX(map, x))
    /\ map.cells[MAP_GXWX(map, x) + 1] = -1

\* a faulty acceptance test: every draw is accepted
AnyPoses(map) ==
    Poses

\* the poses a draw accepted under MapFree can have
FreePoses(map) ==
    {x \in Poses : MapFree(map, x)}

\* the poses a draw accepted under MAP_VALID alone can have
ValidPoses(map) ==
    {x \in Poses : MAP_VALID(map, MAP_GXWX(map, x))}

-----------------------------------------------------------------------------
(* The kd-tree histogram, as far as pf.c observes it: a function from the   *)
(* occupied bucket keys to [cluster: label or -1].  The weight a leaf sums  *)
(* up is read by nothing in pf.c and is left out.                          *)

\* bucket key of a pose: floor(x / 0.5), x in half-metres
KdKey(x) ==
    x

pf_kdtree_alloc(max_size) ==
    [leaves |-> <<>>, node_max_count |-> max_size]

pf_kdtree_clear(tree) ==
    [tree EXCEPT !.leaves = <<>>]

leaf_count(tree) ==
    Cardinality(DOMAIN tree.leaves)

\* nodes in use: a tree of L leaves holds 2L - 1 nodes
node_count(tree) ==
    IF leaf_count(tree) = 0 THEN 0 ELSE 2 * leaf_count(tree) - 1

pf_kdtree_insert(tree, pose, weight) ==
    LET key == KdKey(pose)
        old == tree.leaves
    IN  IF key \in DOMAIN old
        THEN tree
        ELSE IF node_count(tree) + (IF leaf_count(tree) = 0 THEN 1 ELSE 2)
                    > tree.node_max_count
        THEN tree
        ELSE [tree EXCEPT !.leaves = (key :> [cluster |-> -1]) @@ old]

\* label of the connected component of key k: components are runs of
\* consecutive keys, numbered from the smallest key up
ClusterLabel(keys, k) ==
    Cardinality({s \in keys : s <= k /\ (s - 1) \notin keys}) - 1

pf_kdtree_cluster(tree) ==
    [tree EXCEPT !.leaves =
        [k \in DOMAIN tree.leaves |->
            [tree.leaves[k] EXCEPT !.cluster = ClusterLabel(DOMAIN tree.leaves, k)]]]

pf_kdtree_get_cluster(tree, pose) ==
    IF KdKey(pose) \in DOMAIN tree.leaves
    THEN tree.leaves[KdKey(pose)].cluster
    ELSE -1

\* insert samples[lo..hi] one after the other: the first half, and once
\* that tree is built, the second
RECURSIVE InsertRange(_, _, _, _)
InsertRange(tree, samples, lo, hi) ==
    IF lo > hi THEN tree
    ELSE IF lo = hi THEN pf_kdtree_insert(tree, samples[lo].pose, samples[lo].weight)
    ELSE LET first == InsertRange(tree, samples, lo, (lo + hi) \div 2)
         IN  IF leaf_count(first) >= 0
             THEN InsertRange(first, samples, (lo + hi) \div 2 + 1, hi)
             ELSE first

\* insert samples[from..Len] one after the other
InsertAll(tree, samples, from) ==
    InsertRange(tree, samples, from, Len(samples))


-----------------------------------------------------------------------------
(* The KLD resample limit, in exact integer arithmetic.                    *)
(* With m = k - 1, t = sqrt(2/m), A = (9m - 2)/(9m) and z = pop_z, the     *)
(* source computes ceil(H * m * x^3) for x = A + (z/3) t, where            *)
(* H = 1/(2 pop_err).  x^3 = R + S (z/3) t with                            *)
(*   R = FoxR(m) / (729 m^3),  S = FoxS(m) / (27 m^2),                     *)
(* so N >= H m x^3 iff P >= Q t for the integers P and Q below.            *)

\* pf->pop_err = 0.01, held as its inverse
pop_err_inv ==
    100

\* pf->pop_z
pop_z ==
    3

\* largest value the ceiling is searched up to (above every max_samples used)
FoxSearchMax ==
    4000

FoxR(m) ==
    (9 * m - 2) * (9 * m - 2) * (9 * m - 2) + 54 * pop_z * pop_z * m * (9 * m - 2)

FoxS(m) ==
    (9 * m - 2) * (9 * m - 2) + 6 * pop_z * pop_z * m

\* a/b >= c/d for a, c >= 0 and b, d > 0, by comparing continued fractions
RECURSIVE FracGE(_, _, _, _)
FracGE(a, b, c, d) ==
    IF (a \div b) # (c \div d) THEN (a \div b) > (c \div d)
    ELSE IF c % d = 0 THEN TRUE
    ELSE IF a % b = 0 THEN FALSE
    ELSE FracGE(d, c % d, b, a % b)

\* N >= H * m * x^3
FoxGE(N, m, H) ==
    LET P == 729 * m * m * N - H * FoxR(m)
        Q == 9 * H * pop_z * m * FoxS(m)
    IN  /\ P > 0
        /\ FracGE(P, Q, 18 * H * pop_z * FoxS(m), P)

\* the least N in lo..hi with N >= H m x^3, or hi + 1 when there is none
RECURSIVE FoxCeil(_, _, _, _)
FoxCeil(lo, hi, m, H) ==
    IF lo > hi THEN lo
    ELSE LET mid == (lo + hi) \div 2
         IN  IF FoxGE(mid, m, H)
             THEN FoxCeil(lo, mid - 1, m, H)
             ELSE FoxCeil(mid + 1, hi, m, H)

\* largest number of occupied buckets the limits are evaluated for
MaxK ==
    12

\* ceil((k - 1) / (2 pop_err) x^3) for k = 2..MaxK, indexed by k - 1
FoxTable ==
    [m \in 1..(MaxK - 1) |-> FoxCeil(0, FoxSearchMax, m, pop_err_inv \div 2)]

\* ceil((k - 1) / (5 * 2 pop_err) x^3) for k = 2..MaxK, indexed by k - 1
FoxTable2 ==
    [m \in 1..(MaxK - 1) |-> FoxCeil(0, FoxSearchMax, m, pop_err_inv \div 10)]

\* a faulty limit: max_samples, not min_samples, for at most one bucket
pf_resample_limit_few_max(k) ==
    IF k <= 1 THEN max_samples
    ELSE LET n == FoxTable[k - 1]
         IN  IF n < min_samples THEN min_samples
             ELSE IF n >= max_samples THEN max_samples
             ELSE n

pf_resample_limit(k) ==
    IF k <= 1 THEN min_samples
    ELSE LET n == FoxTable[k - 1]
         IN  IF n < min_samples THEN min_samples
             ELSE IF n >= max_samples THEN max_samples
             ELSE n

\* what the conversion of a NaN to int yields: INT_MIN (x86) or 0 (saturating targets)
NaNToInt ==
    {-2147483647 - 1, 0}

\* for k <= 1 the source divides by zero or takes the root of a negative
\* number and converts the resulting NaN to int; nan is the value that yields
pf_resample_limit_2(k, nan) ==
    IF k <= 1 THEN nan
    ELSE FoxTable2[k - 1]

-----------------------------------------------------------------------------
(* Sample sets and cluster statistics *)

\* set->cluster_max_count
cluster_max_count ==
    100

SetMax(S) ==
    CHOOSE x \in S : \A y \in S : y <= x

Min2(a, b) ==
    IF a < b THEN a ELSE b

\* C integer division (truncation toward zero), b > 0
CDiv(a, b) ==
    IF a >= 0 THEN a \div b ELSE -((-a) \div b)

\* a sample set as pf_alloc leaves it
AllocSet(max) ==
    [sample_count  |-> max,
     samples       |-> [i \in 1..max |-> [pose |-> 0, weight |-> Rat(1, max)]],
     kdtree        |-> pf_kdtree_alloc(3 * max),
     cluster_count |-> 0,
     clusters      |-> <<>>]

\* the cluster label pf_kdtree_get_cluster returns for each sample once the
\* tree is clustered
Labels(set) ==
    LET tree == pf_kdtree_cluster(set.kdtree)
    IN  [i \in 1..set.sample_count |-> pf_kdtree_get_cluster(tree, set.samples[i].pose)]

\* assert(c >= 0) holds for every sample
ClusterAssertOK(set) ==
    LET lab == Labels(set)
    IN  \A i \in 1..set.sample_count : lab[i] >= 0

\* a faulty accumulation: the count is set, not incremented, by each member
ClusterOfCountSet(set, lab, c) ==
    LET members == {i \in 1..set.sample_count : lab[i] = c /\ lab[i] < cluster_max_count}
    IN  [count  |-> IF members = {} THEN 0 ELSE 1,
         weight |-> RSum([i \in 1..set.sample_count |->
                            IF i \in members THEN set.samples[i].weight ELSE Zero],
                         set.sample_count)]

\* the count and the weight of cluster c: the samples labelled c, of which
\* those whose label does not fit the cluster table are skipped
ClusterOf(set, lab, c) ==
    LET members == {i \in 1..set.sample_count : lab[i] = c /\ lab[i] < cluster_max_count}
    IN  [count  |-> Cardinality(members),
         weight |-> RSum([i \in 1..set.sample_count |->
                            IF i \in members THEN set.samples[i].weight ELSE Zero],
                         set.sample_count)]

\* the tree is clustered and the cluster table rebuilt; of each cluster the
\* model keeps the sample count and the weight, not the mean and covariance
pf_cluster_stats(set) ==
    LET lab  == Labels(set)
        kept == {lab[i] : i \in {j \in 1..set.sample_count : lab[j] < cluster_max_count}}
        cc   == IF kept = {} THEN 0 ELSE SetMax(kept) + 1
    IN  [set EXCEPT
            !.kdtree = pf_kdtree_cluster(set.kdtree),
            !.cluster_count = cc,
            !.clusters = [c \in 1..cc |-> ClusterOf(set, lab, c - 1)]]

\* pf_cluster_set before its closing pf_cluster_stats: a new tree of
\* 3 * sample_count nodes holding every sample, and an empty cluster table
ClusterSetTree(set) ==
    [set EXCEPT
        !.kdtree = InsertAll(pf_kdtree_alloc(3 * set.sample_count), set.samples, 1),
        !.cluster_count = 0,
        !.clusters = <<>>]

\* every weight divided by d (no sample, no division)
Normalize(samples, d) ==
    [i \in 1..Len(samples) |-> [samples[i] EXCEPT !.weight = RDiv(samples[i].weight, d)]]

A ==
    current_set

B ==
    (current_set + 1) % 2

-----------------------------------------------------------------------------
(* How an operation ends *)

\* what a void operation leaves as its return value: no number
NoRet ==
    <<0, 0>>

\* no cluster query was made
NoOut ==
    [set |-> 0, clabel |-> 0, ret |-> 0, written |-> FALSE, weight |-> <<0, 1>>,
     entry |-> -1, read |-> FALSE]

\* no draw of the map-constrained sampler is in progress
NoSampler ==
    [map |-> [size_x |-> 0, scale |-> 1, origin_x |-> 0, cells |-> <<>>],
     caller |-> "none", pc |-> "idle", drawn |-> FALSE, tmp |-> 0, ix |-> 0,
     correct |-> FALSE, redrawn |-> FALSE, pose |-> 0]

\* the operation returns to its caller
Return(op, newsets, newcur, ret, flips) ==
    /\ sets' = newsets
    /\ current_set' = newcur
    /\ lastOp' = op
    /\ retval' = ret
    /\ resample_parity' = IF flips THEN 1 - resample_parity ELSE resample_parity
    /\ UNCHANGED <<min_samples, max_samples, overHead_samples, status, fault, kin, kout,
                   out, sampler>>

\* what is left of the sample sets once the process is gone: nothing
NoSets ==
    [j \in 0..1 |->
        [sample_count  |-> 0,
         samples       |-> <<>>,
         kdtree        |-> pf_kdtree_alloc(0),
         cluster_count |-> 0,
         clusters      |-> <<>>]]

\* the operation never returns to its caller; the filter's memory is out of
\* the caller's reach from then on
Ends(how, why) ==
    /\ status' = how
    /\ fault' = why
    /\ sets' = NoSets
    /\ UNCHANGED <<min_samples, max_samples, overHead_samples, current_set,
                   lastOp, retval, resample_parity, kin, kout, out, sampler>>

\* an assertion fails: abort() ends the process inside the operation
Abort(why) ==
    Ends("aborted", why)

\* the operation loops forever
Hang(why) ==
    Ends("hung", why)

\* undefined behaviour inside op: the process dies there, or the operation
\* runs on as if nothing had happened (newsets, newcur) with its memory
\* corrupt; what follows a corrupt state is not modelled
Undefined(why, op, newsets, newcur, flips) ==
    \/ /\ status' = "corrupt"
       /\ fault' = why
       /\ sets' = newsets
       /\ current_set' = newcur
       /\ lastOp' = op
       /\ retval' = NoRet
       /\ resample_parity' = IF flips THEN 1 - resample_parity ELSE resample_parity
       /\ UNCHANGED <<min_samples, max_samples, overHead_samples, kin, kout, out, sampler>>
    \/ Ends("aborted", why)

-----------------------------------------------------------------------------
(* Construction *)

pf_alloc(min, max, overhead) ==
    /\ min_samples = min
    /\ max_samples = max
    /\ overHead_samples = overhead
    /\ current_set = 0
    /\ sets = [j \in 0..1 |-> AllocSet(max)]

Init ==
    /\ pf_alloc(MinSamples, MaxSamples, OverHead)
    /\ status = "ok"
    /\ fault = "none"
    /\ lastOp = "pf_alloc"
    /\ retval = NoRet
    /\ resample_parity = 0
    /\ kin = 0
    /\ kout = 0
    /\ out = NoOut
    /\ sampler = NoSampler

-----------------------------------------------------------------------------
(* Initialization operations *)

\* a faulty initialisation: the kd-tree is not cleared first
InitSetNoClear(set, poses) ==
    LET samples == [i \in 1..max_samples |->
                        [pose |-> poses[i], weight |-> Rat(1, max_samples)]]
    IN  [set EXCEPT
            !.sample_count = max_samples,
            !.samples = samples,
            !.kdtree = InsertAll(set.kdtree, samples, 1)]

\* the body shared by the four init operations: poses[i] is the i-th draw
InitSet(set, poses) ==
    LET samples == [i \in 1..max_samples |->
                        [pose |-> poses[i], weight |-> Rat(1, max_samples)]]
    IN  [set EXCEPT
            !.sample_count = max_samples,
            !.samples = samples,
            !.kdtree = InsertAll(pf_kdtree_clear(set.kdtree), samples, 1)]

InitOp(op, poses) ==
    LET set == InitSet(sets[A], poses)
    IN  IF ClusterAssertOK(set)
        THEN Return(op, [sets EXCEPT ![A] = pf_cluster_stats(set)], current_set, NoRet, FALSE)
        ELSE Abort("assert_cluster")

\* every pose is a draw of the Gaussian: any pose
pf_init ==
    /\ status = "ok"
    /\ \E poses \in [1..max_samples -> Poses] : InitOp("pf_init", poses)

\* the draws of pf_init_map: every pose is the first draw that lands on a
\* free cell of map
InitMapPoses(map) ==
    [1..max_samples -> FreePoses(map)]

pf_init_map ==
    /\ status = "ok"
    /\ \E poses \in UNION {InitMapPoses(map) : map \in Maps} :
            InitOp("pf_init_map", poses)

\* every pose is what the caller's init_fn returns
pf_init_model ==
    /\ status = "ok"
    /\ \E poses \in [1..max_samples -> Poses] : InitOp("pf_init_model", poses)

\* every pose is the first draw inside the map (free or not)
pf_init_to_point ==
    /\ status = "ok"
    /\ \E poses \in UNION {[1..max_samples -> ValidPoses(map)] : map \in Maps} :
            InitOp("pf_init_to_point", poses)


-----------------------------------------------------------------------------
(* Action and sensor updates *)

\* the motion callback rewrites the poses of the current set in place
MovePoses(set, poses) ==
    [set EXCEPT !.samples =
        [i \in 1..set.sample_count |-> [set.samples[i] EXCEPT !.pose = poses[i]]]]

pf_update_action ==
    /\ status = "ok"
    /\ \E poses \in [1..sets[A].sample_count -> Poses] :
            Return("pf_update_action", [sets EXCEPT ![A] = MovePoses(sets[A], poses)],
                   current_set, NoRet, FALSE)

\* a faulty pf_update_action_update_cluster: the tree is rebuilt before the
\* action model moves the samples
pf_update_action_update_cluster_stale ==
    /\ status = "ok"
    /\ \E poses \in [1..sets[A].sample_count -> Poses] :
            LET old == sets[A]
                set == [MovePoses(old, poses) EXCEPT !.kdtree =
                            InsertAll(pf_kdtree_clear(old.kdtree), old.samples, 1)]
            IN  IF ClusterAssertOK(set)
                THEN Return("pf_update_action_update_cluster",
                            [sets EXCEPT ![A] = pf_cluster_stats(set)],
                            current_set, NoRet, FALSE)
                ELSE Abort("assert_cluster")

pf_update_action_update_cluster ==
    /\ status = "ok"
    /\ \E poses \in [1..sets[A].sample_count -> Poses] :
            LET moved == MovePoses(sets[A], poses)
                set   == [moved EXCEPT !.kdtree =
                            InsertAll(pf_kdtree_clear(moved.kdtree), moved.samples, 1)]
            IN  IF ClusterAssertOK(set)
                THEN Return("pf_update_action_update_cluster",
                            [sets EXCEPT ![A] = pf_cluster_stats(set)],
                            current_set, NoRet, FALSE)
                ELSE Abort("assert_cluster")

\* the sum of the squared weights
SquareWeightSum(samples) ==
    RSum([i \in 1..Len(samples) |-> RMul(samples[i].weight, samples[i].weight)],
         Len(samples))

\* a faulty normalization: the weights are left as the callback wrote them
SensorUpdateUnscaled(set, w, total) ==
    LET samples == [i \in 1..set.sample_count |->
                        [set.samples[i] EXCEPT !.weight = Rat(w[i], 1)]]
    IN  [set |-> [set EXCEPT !.samples = samples],
         squareWeightSum |-> SquareWeightSum(samples)]

\* pf_update_sensor once the callback has written weight w[i] to sample i
\* and returned total: the set it leaves and the value it returns
SensorUpdate(set, w, total) ==
    LET samples == [i \in 1..set.sample_count |->
                        [set.samples[i] EXCEPT !.weight =
                            IF ~RLeq(total, Zero)
                            THEN RDiv(Rat(w[i], 1), total)
                            ELSE Rat(1, set.sample_count)]]
    IN  [set |-> [set EXCEPT !.samples = samples],
         squareWeightSum |-> SquareWeightSum(samples)]

\* the weights the callback can write to a set of n samples
SensorWeights(n) ==
    [1..n -> 0..SensorMaxWeight]

\* the sum of the weights w
SensorSum(w) ==
    RSum([i \in DOMAIN w |-> Rat(w[i], 1)], Len(w))

\* the totals the callback can return having written w: their sum, or a
\* total that is not positive (zero, negative)
SensorTotals(w) ==
    {SensorSum(w), Zero, Rat(-1, 1)}

pf_update_sensor ==
    /\ status = "ok"
    /\ \E w \in SensorWeights(sets[A].sample_count) :
        \E total \in SensorTotals(w) :
            LET r == SensorUpdate(sets[A], w, total)
            IN  Return("pf_update_sensor", [sets EXCEPT ![A] = r.set], current_set,
                       r.squareWeightSum, FALSE)

-----------------------------------------------------------------------------
(* Resampling *)

\* the indices the discrete sampler can return: those of positive weight
pf_pdf_discrete_sample(set) ==
    {i \in 1..set.sample_count : ~RLeq(set.samples[i].weight, Zero)}

\* the discrete distribution can be built: some weight is positive
pf_pdf_discrete_alloc(set) ==
    /\ set.sample_count > 0
    /\ ~RLeq(WeightSum(set.samples), Zero)

\* the scratch set as the loop starts: no sample, tree cleared, total 0
ScratchStart(set_b) ==
    [samples |-> <<>>, kdtree |-> pf_kdtree_clear(set_b.kdtree), total |-> Zero,
     assert_ok |-> TRUE]

\* append a sample of weight 1.0 and add it to the histogram
AddSample(b, pose) ==
    [b EXCEPT !.samples = Append(b.samples, [pose |-> pose, weight |-> One]),
              !.kdtree = pf_kdtree_insert(b.kdtree, pose, One),
              !.total = RAdd(b.total, One)]

\* a faulty turn of the importance loop: the cutoff stops the loop as soon
\* as the count reaches the limit, with no overshoot
ImportanceStepNoOvershoot(set_a, b, i) ==
    IF RLeq(set_a.samples[i].weight, Zero)
    THEN [b |-> [b EXCEPT !.assert_ok = FALSE], more |-> FALSE]
    ELSE LET b2 == AddSample(b, set_a.samples[i].pose)
         IN  [b |-> b2,
              more |-> ~(Len(b2.samples) >= pf_resample_limit(leaf_count(b2.kdtree)))]

\* a faulty turn of the importance loop: the assertion looks at sample i,
\* the pose copied is that of the first sample
ImportanceStepFirstPose(set_a, b, i) ==
    IF RLeq(set_a.samples[i].weight, Zero)
    THEN [b |-> [b EXCEPT !.assert_ok = FALSE], more |-> FALSE]
    ELSE LET b2 == AddSample(b, set_a.samples[1].pose)
         IN  [b |-> b2,
              more |-> ~(Len(b2.samples) > pf_resample_limit(leaf_count(b2.kdtree)))]

\* one turn of the importance loop with i the index the sampler returns:
\* the scratch set after it, and whether the loop goes on
ImportanceStep(set_a, b, i) ==
    IF RLeq(set_a.samples[i].weight, Zero)
    THEN [b |-> [b EXCEPT !.assert_ok = FALSE], more |-> FALSE]
    ELSE LET b2 == AddSample(b, set_a.samples[i].pose)
         IN  [b |-> b2,
              more |-> ~(Len(b2.samples) > pf_resample_limit(leaf_count(b2.kdtree)))]

\* the scratch sets the importance loop can end with, over all the indices
\* the sampler can return
RECURSIVE ImportanceLoop(_, _, _)
ImportanceLoop(set_a, b, nmax) ==
    IF ~(Len(b.samples) < nmax) THEN {b}
    ELSE UNION {
            LET step == ImportanceStep(set_a, b, i)
            IN  IF step.more THEN ImportanceLoop(set_a, step.b, nmax) ELSE {step.b}
            : i \in pf_pdf_discrete_sample(set_a)}

\* append poses[lo..hi] one after the other: the first half, and once
\* those are appended, the second
RECURSIVE AddRange(_, _, _, _)
AddRange(b, poses, lo, hi) ==
    IF lo > hi THEN b
    ELSE IF lo = hi THEN AddSample(b, poses[lo])
    ELSE LET first == AddRange(b, poses, lo, (lo + hi) \div 2)
         IN  IF Len(first.samples) >= 0
             THEN AddRange(first, poses, (lo + hi) \div 2 + 1, hi)
             ELSE first

\* append poses[1..n] one after the other
AddSamples(b, poses, n) ==
    AddRange(b, poses, 1, n)

\* a faulty end of the loops: the weights are left at 1.0
RebuiltUnnormalized(set_b, b, d) ==
    [set_b EXCEPT !.sample_count = Len(b.samples),
                  !.samples = b.samples,
                  !.kdtree = b.kdtree]

\* the scratch set once the loop's result is normalized by d
Rebuilt(set_b, b, d) ==
    [set_b EXCEPT !.sample_count = Len(b.samples),
                  !.samples = Normalize(b.samples, d),
                  !.kdtree = b.kdtree]

\* how far a resampler got before its closing pf_cluster_stats: "loop" (the
\* loops are over), "assert_weight", "empty_pdf" or "hung", with the two
\* sets as it left them; copied is the number of samples the importance loop
\* wrote, the rest of set_b was injected
Ran(end, set_a, set_b, copied) ==
    [end |-> end, set_a |-> set_a, set_b |-> set_b, copied |-> copied]

\* the loops are over with scratch set b, to be normalized by d
Looped(set_a, set_b, b, d, copied) ==
    IF b.assert_ok
    THEN Ran("loop", set_a, Rebuilt(set_b, b, d), copied)
    ELSE Ran("assert_weight", set_a, set_b, copied)

\* the values the caller passes for a sample count
ArgRange ==
    (0 - ArgSlack)..(max_samples + ArgSlack)

\* a faulty end of the resamplers: the new set is built but current_set is
\* left as it was
FinishResampleNoFlip(op, r) ==
    LET done == [sets EXCEPT ![A] = r.set_a, ![B] = pf_cluster_stats(r.set_b)]
    IN  IF r.end = "loop" /\ ClusterAssertOK(r.set_b)
        THEN Return(op, done, current_set, NoRet, TRUE)
        ELSE Abort(r.end)

\* the end shared by the resamplers: cluster statistics on the new set, then
\* the flip; a sample written beyond the array is undefined behaviour, and so
\* is a discrete distribution built from no positive weight
FinishResample(op, r) ==
    LET done == [sets EXCEPT ![A] = r.set_a, ![B] = pf_cluster_stats(r.set_b)]
    IN  IF r.end = "empty_pdf"
        THEN Undefined("empty_pdf", lastOp, sets, current_set, FALSE)
        ELSE IF r.end = "assert_weight" THEN Abort("assert_weight")
        ELSE IF r.end = "hung" THEN Hang("hyps3_loop")
        ELSE IF ~ClusterAssertOK(r.set_b) THEN Abort("assert_cluster")
        ELSE IF r.set_b.sample_count > max_samples \/ r.set_a.sample_count > max_samples
        THEN Undefined("oob_write", op, done, B, TRUE)
        ELSE Return(op, done, B, NoRet, TRUE)

\* a faulty pf_update_resample that resamples in place: what it builds in
\* the scratch set it also writes over the source set
ResampleRunsInPlace(set_a, set_b, nMaxParticles) ==
    IF ~pf_pdf_discrete_alloc(set_a) THEN {Ran("empty_pdf", set_a, set_b, 0)}
    ELSE {Looped(Rebuilt(set_a, b, b.total), set_b, b, b.total, Len(b.samples)) :
            b \in ImportanceLoop(set_a, ScratchStart(set_b), nMaxParticles)}

\* pf_update_resample on sets set_a (current) and set_b (scratch)
ResampleRuns(set_a, set_b, nMaxParticles) ==
    IF ~pf_pdf_discrete_alloc(set_a) THEN {Ran("empty_pdf", set_a, set_b, 0)}
    ELSE {Looped(set_a, set_b, b, b.total, Len(b.samples)) :
            b \in ImportanceLoop(set_a, ScratchStart(set_b), nMaxParticles)}

pf_update_resample ==
    /\ status = "ok"
    /\ \E r \in UNION {ResampleRuns(sets[A], sets[B], nMaxParticles) :
                        nMaxParticles \in ArgRange} :
            FinishResample("pf_update_resample", r)

\* pf_update_resample_addParticle: the loop copies max_samples - nPartToAdd
\* samples at most, then nPartToAdd free poses are appended
AddParticleRuns(set_a, set_b, nPartToAdd, map) ==
    IF ~pf_pdf_discrete_alloc(set_a) THEN {Ran("empty_pdf", set_a, set_b, 0)}
    ELSE {LET b2 == AddSamples(b, added, nPartToAdd)
          IN  Looped(set_a, set_b, b2, b2.total, Len(b.samples)) :
            b \in ImportanceLoop(set_a, ScratchStart(set_b), max_samples - nPartToAdd),
            added \in [1..nPartToAdd -> FreePoses(map)]}

pf_update_resample_addParticle ==
    /\ status = "ok"
    /\ \E r \in UNION {AddParticleRuns(sets[A], sets[B], nPartToAdd, map) :
                        nPartToAdd \in ArgRange, map \in Maps} :
            FinishResample("pf_update_resample_addParticle", r)

\* the resampled count below which pf_update_resample_map injects: min_samples + 10
MapInjectMargin ==
    10

\* the most samples pf_update_resample_map injects
MapInjectMax ==
    100

\* a faulty injection count: the test against min_samples + 10 is left out
MapInjectCountAlways(i) ==
    IF i < max_samples THEN Min2(MapInjectMax, max_samples - i) ELSE 0

\* the number of samples pf_update_resample_map injects after copying i
MapInjectCount(i) ==
    IF i < min_samples + MapInjectMargin /\ i < max_samples
    THEN Min2(MapInjectMax, max_samples - i)
    ELSE 0

MapRuns(set_a, set_b, map) ==
    IF ~pf_pdf_discrete_alloc(set_a) THEN {Ran("empty_pdf", set_a, set_b, 0)}
    ELSE UNION {
            {LET b2 == AddSamples(b, added, MapInjectCount(Len(b.samples)))
             IN  Looped(set_a, set_b, b2, b2.total, Len(b.samples)) :
                added \in [1..MapInjectCount(Len(b.samples)) -> FreePoses(map)]} :
            b \in ImportanceLoop(set_a, ScratchStart(set_b),
                                 max_samples - overHead_samples)}

pf_update_resample_map ==
    /\ status = "ok"
    /\ \E r \in UNION {MapRuns(sets[A], sets[B], map) : map \in Maps} :
            FinishResample("pf_update_resample_map", r)

\* keep the draws that land on a free cell, in order
RECURSIVE Accepted(_, _, _)
Accepted(map, tries, n) ==
    IF n <= 0 THEN <<>>
    ELSE IF MapFree(map, tries[n]) THEN Append(Accepted(map, tries, n - 1), tries[n])
    ELSE Accepted(map, tries, n - 1)

\* what n draws of a hypothesis can leave: each draw is any pose
AcceptedSeqs(map, n) ==
    {Accepted(map, tried, n) : tried \in [1..n -> Poses]}

\* a faulty budget: the remaining capacity is not shared among the hypotheses
HypsNewSampleUndivided(i, nHyp, nParticle) ==
    Min2(nParticle, max_samples - i)

\* the draws per hypothesis of pf_update_resample_hyps after copying i
HypsNewSample(i, nHyp, nParticle) ==
    CDiv(Min2(nParticle, max_samples - i), nHyp)

\* the draws of all hypotheses together: none when the share is not positive
HypsTries(nHyp, nNewSample) ==
    IF nNewSample > 0 THEN nHyp * nNewSample ELSE 0

HypsRuns(set_a, set_b, nHyp, nParticle, map) ==
    IF ~pf_pdf_discrete_alloc(set_a) THEN {Ran("empty_pdf", set_a, set_b, 0)}
    ELSE UNION {
            {LET b2 == AddSamples(b, ok, Len(ok))
             IN  Looped(set_a, set_b, b2, b2.total, Len(b.samples)) :
                ok \in AcceptedSeqs(map,
                        HypsTries(nHyp, HypsNewSample(Len(b.samples), nHyp, nParticle)))} :
            b \in ImportanceLoop(set_a, ScratchStart(set_b),
                                 max_samples - overHead_samples)}

pf_update_resample_hyps ==
    /\ status = "ok"
    /\ \E r \in UNION {HypsRuns(sets[A], sets[B], nHyp, nParticle, map) :
                        nHyp \in 1..MaxHyp, nParticle \in ArgRange, map \in Maps} :
            FinishResample("pf_update_resample_hyps", r)

\* the samples pf_update_resample_hyps_2 leaves out of the importance loop: max_samples - 1000
Hyps2Reserve ==
    1000

\* set A grown by the accepted hypothesis draws, every weight set to 1/n
Hyps2Grow(set_a, ok) ==
    LET grown == set_a.samples \o [i \in 1..Len(ok) |-> [pose |-> ok[i], weight |-> One]]
    IN  [set_a EXCEPT
            !.sample_count = Len(grown),
            !.samples = [i \in 1..Len(grown) |->
                            [grown[i] EXCEPT !.weight = Rat(1, Len(grown))]]]

Hyps2Runs(set_a, set_b, nHyp, map) ==
    UNION {
        LET grown == Hyps2Grow(set_a, ok)
        IN  IF ~pf_pdf_discrete_alloc(grown) THEN {Ran("empty_pdf", set_a, set_b, 0)}
            ELSE {Looped(grown, set_b, b, Rat(Len(b.samples), 1), Len(b.samples)) :
                    b \in ImportanceLoop(grown, ScratchStart(set_b),
                                         max_samples - Hyps2Reserve)} :
        ok \in AcceptedSeqs(map,
                HypsTries(nHyp, CDiv(max_samples - set_a.sample_count, nHyp)))}

pf_update_resample_hyps_2 ==
    /\ status = "ok"
    /\ \E r \in UNION {Hyps2Runs(sets[A], sets[B], nHyp, map) :
                        nHyp \in 1..MaxHyp, map \in Maps} :
            FinishResample("pf_update_resample_hyps_2", r)

\* the samples pf_update_resample_hyps_3 injects for each hypothesis before
\* it consults the secondary limit
HypMinPart ==
    10

\* the second injection loop of one hypothesis: acc[idx] is the next draw
\* that lands on a free cell; with lost, no draw of this hypothesis ever does
RECURSIVE Hyps3Loop(_, _, _, _, _, _)
Hyps3Loop(a, nNewSample, nan, acc, idx, lost) ==
    IF ~(Len(a.samples) < nNewSample) THEN [a |-> a, hung |-> FALSE]
    ELSE IF Len(a.samples) > pf_resample_limit_2(leaf_count(a.kdtree), nan)
    THEN [a |-> a, hung |-> FALSE]
    ELSE IF lost THEN [a |-> a, hung |-> TRUE]
    ELSE Hyps3Loop(AddSample(a, acc[idx]), nNewSample, nan, acc, idx + 1, lost)

\* the poses of a sequence of samples
PosesOf(samples) ==
    [i \in 1..Len(samples) |-> samples[i].pose]

\* hypotheses j..nHyp, one after the other: set A is emptied and refilled for
\* each, then moved to the end of set B
RECURSIVE Hyps3Each(_, _, _, _, _, _, _, _, _, _)
Hyps3Each(map, j, nHyp, a, b, nNewSample, tried, acc, nan, lost) ==
    IF j > nHyp THEN [a |-> a, b |-> b, hung |-> FALSE]
    ELSE LET nMinPart == Min2(HypMinPart, nNewSample)
             ok     == IF j \in lost THEN <<>> ELSE Accepted(map, tried[j], nMinPart)
             a0     == [a EXCEPT !.samples = <<>>, !.kdtree = pf_kdtree_clear(a.kdtree)]
             a1     == AddSamples(a0, ok, Len(ok))
             filled == Hyps3Loop(a1, nNewSample, nan, acc[j], 1, j \in lost)
             b2     == AddSamples(b, PosesOf(filled.a.samples), Len(filled.a.samples))
         IN  IF filled.hung THEN [a |-> filled.a, b |-> b, hung |-> TRUE]
             ELSE Hyps3Each(map, j + 1, nHyp, filled.a, b2, nNewSample, tried, acc, nan, lost)

\* what the injection can end with, over the draws of every hypothesis,
\* the hypotheses that never hit a free cell and the build's NaN conversion
Hyps3Inject(map, nHyp, a, b, nNewSample) ==
    {Hyps3Each(map, 1, nHyp, a, b, nNewSample, tried, acc, nan, lost) :
        tried \in [1..nHyp -> [1..Min2(HypMinPart, nNewSample) -> Poses]],
        acc \in [1..nHyp -> [1..nNewSample -> FreePoses(map)]],
        nan \in NaNToInt,
        lost \in SUBSET (1..nHyp)}

\* the samples the importance loop of pf_update_resample_hyps_3 may copy
Hyps3ReqSamples(set_a) ==
    IF max_samples - set_a.sample_count < overHead_samples
    THEN max_samples - overHead_samples
    ELSE set_a.sample_count

Hyps3Runs(set_a, set_b, nHyp, map) ==
    IF ~pf_pdf_discrete_alloc(set_a) THEN {Ran("empty_pdf", set_a, set_b, 0)}
    ELSE UNION {
            {LET used == [set_a EXCEPT
                            !.sample_count = Len(r.a.samples),
                            !.samples = r.a.samples,
                            !.kdtree = r.a.kdtree]
             IN  IF ~b.assert_ok THEN Ran("assert_weight", set_a, set_b, Len(b.samples))
                 ELSE IF r.hung THEN Ran("hung", used, set_b, Len(b.samples))
                 ELSE Looped(used, set_b, r.b, Rat(Len(r.b.samples), 1), Len(b.samples)) :
                r \in Hyps3Inject(map, nHyp, ScratchStart(set_a), b,
                        CDiv(max_samples - Hyps3ReqSamples(set_a), nHyp))} :
            b \in ImportanceLoop(set_a, ScratchStart(set_b), Hyps3ReqSamples(set_a))}

pf_update_resample_hyps_3 ==
    /\ status = "ok"
    /\ \E r \in UNION {Hyps3Runs(sets[A], sets[B], nHyp, map) :
                        nHyp \in 1..MaxHyp, map \in Maps} :
            FinishResample("pf_update_resample_hyps_3", r)

-----------------------------------------------------------------------------
(* The filter as a state machine *)

Next ==
    \/ pf_init
    \/ pf_init_map
    \/ pf_init_model
    \/ pf_init_to_point
    \/ pf_update_action
    \/ pf_update_action_update_cluster
    \/ pf_update_sensor
    \/ pf_update_resample
    \/ pf_update_resample_addParticle
    \/ pf_update_resample_map
    \/ pf_update_resample_hyps
    \/ pf_update_resample_hyps_2
    \/ pf_update_resample_hyps_3

Spec ==
    Init /\ [][Next]_vars

-----------------------------------------------------------------------------
(* pf_resample_limit on its own: the limit for any bucket count under a     *)
(* range of min_samples and max_samples.  The sample sets play no part in   *)
(* it and are left out.                                                     *)

\* the values min_samples and max_samples take, below, between and above
\* the unclamped limits
LimitSamples ==
    {1, 2, 600, 800, 5000}

\* the bucket counts the limit is asked for
LimitKs ==
    (0 - 1)..MaxK

LimitInit ==
    /\ \E min \in LimitSamples, max \in LimitSamples :
            /\ min <= max
            /\ min_samples = min
            /\ max_samples = max
    /\ overHead_samples = 0
    /\ current_set = 0
    /\ sets = NoSets
    /\ status = "ok"
    /\ fault = "none"
    /\ lastOp = "pf_alloc"
    /\ retval = NoRet
    /\ resample_parity = 0
    /\ kin = 0
    /\ kout = 0
    /\ out = NoOut
    /\ sampler = NoSampler

\* a call pf_resample_limit(pf, k)
resample_limit ==
    \E k \in LimitKs :
        /\ kin' = k
        /\ kout' = pf_resample_limit(k)
        /\ lastOp' = "pf_resample_limit"
        /\ UNCHANGED <<min_samples, max_samples, overHead_samples, current_set, sets,
                       status, fault, retval, resample_parity, out, sampler>>

LimitNext ==
    resample_limit

SpecLimit ==
    LimitInit /\ [][LimitNext]_vars

-----------------------------------------------------------------------------
(* pf_cluster_set on a sample set the caller built: n samples of weight     *)
(* 1/n, sample i in bucket step * i, so that the buckets form one           *)
(* component (step 1) or n components (step 2).                             *)

ClusterSteps ==
    {1, 2}

\* the set the caller hands to pf_cluster_set
GridSet(n, step) ==
    [AllocSet(n) EXCEPT
        !.samples = [i \in 1..n |-> [pose |-> step * i, weight |-> Rat(1, n)]]]

ClusterInit ==
    /\ \E n \in 1..MaxClusterSamples, step \in ClusterSteps :
            /\ max_samples = n
            /\ sets = [j \in 0..1 |-> IF j = 0 THEN GridSet(n, step) ELSE AllocSet(n)]
    /\ min_samples = 1
    /\ overHead_samples = 0
    /\ current_set = 0
    /\ status = "ok"
    /\ fault = "none"
    /\ lastOp = "pf_alloc"
    /\ retval = NoRet
    /\ resample_parity = 0
    /\ kin = 0
    /\ kout = 0
    /\ out = NoOut
    /\ sampler = NoSampler

pf_cluster_set ==
    /\ status = "ok"
    /\ LET set == ClusterSetTree(sets[A])
       IN  IF ClusterAssertOK(set)
           THEN Return("pf_cluster_set", [sets EXCEPT ![A] = pf_cluster_stats(set)],
                       current_set, NoRet, FALSE)
           ELSE Abort("assert_cluster")

ClusterNext ==
    pf_cluster_set

SpecCluster ==
    ClusterInit /\ [][ClusterNext]_vars

-----------------------------------------------------------------------------
(* The cluster queries pf_get_cluster_stats and pf_get_cluster_stats_set on *)
(* sets a cluster-statistics pass has run on.  Of the three outputs only    *)
(* the weight is kept, as in the cluster table of the model.                *)

\* largest sample set the queries are made on
QueryMaxSamples ==
    4

\* the labels the caller asks for: below, inside and beyond the table
QueryLabels(set) ==
    (0 - 2)..(set.cluster_count + 1)

\* what the memory before the cluster table can hold where a weight is read
StrayWeights ==
    {Zero, One}

QueryInit ==
    /\ \E n \in 1..QueryMaxSamples, cur \in 0..1, step \in [0..1 -> ClusterSteps] :
            /\ max_samples = n
            /\ current_set = cur
            /\ sets = [j \in 0..1 |-> pf_cluster_stats(ClusterSetTree(GridSet(n, step[j])))]
    /\ min_samples = 1
    /\ overHead_samples = 0
    /\ status = "ok"
    /\ fault = "none"
    /\ lastOp = "pf_alloc"
    /\ retval = NoRet
    /\ resample_parity = 0
    /\ kin = 0
    /\ kout = 0
    /\ out = NoOut
    /\ sampler = NoSampler

\* the body shared by the two queries, on set with label clabel: the value
\* returned, whether the outputs are written, the weight written, whether an
\* entry clusters[clabel] is read, and whether that read lies in the table.
\* A negative label passes the test clabel >= cluster_count and reads before
\* the table: undefined behaviour
ClusterQuery(set, clabel) ==
    IF clabel >= set.cluster_count
    THEN {[ret |-> 0, written |-> FALSE, weight |-> Zero, read |-> FALSE, defined |-> TRUE]}
    ELSE IF clabel >= 0
    THEN {[ret |-> 1, written |-> TRUE, weight |-> set.clusters[clabel + 1].weight,
           read |-> TRUE, defined |-> TRUE]}
    ELSE {[ret |-> 1, written |-> TRUE, weight |-> w, read |-> TRUE, defined |-> FALSE] :
            w \in StrayWeights}

\* a query op on set j returns q to its caller, or ends in the stray read
QueryOp(op, j, clabel) ==
    \E q \in ClusterQuery(sets[j], clabel) :
        \/ /\ status' = IF q.defined THEN "ok" ELSE "corrupt"
           /\ fault' = IF q.defined THEN "none" ELSE "oob_read"
           /\ out' = [set |-> j, clabel |-> clabel, ret |-> q.ret, written |-> q.written,
                      weight |-> q.weight, entry |-> IF q.read THEN clabel ELSE -1,
                      read |-> q.read]
           /\ lastOp' = op
           /\ retval' = Rat(q.ret, 1)
           /\ UNCHANGED <<min_samples, max_samples, overHead_samples, current_set, sets,
                          resample_parity, kin, kout, sampler>>
        \/ /\ ~q.defined
           /\ Ends("aborted", "oob_read")

pf_get_cluster_stats ==
    /\ status = "ok"
    /\ \E clabel \in QueryLabels(sets[A]) :
            QueryOp("pf_get_cluster_stats", A, clabel)

pf_get_cluster_stats_set ==
    /\ status = "ok"
    /\ \E j \in 0..1 : \E clabel \in QueryLabels(sets[j]) :
            QueryOp("pf_get_cluster_stats_set", j, clabel)

QueryNext ==
    \/ pf_get_cluster_stats
    \/ pf_get_cluster_stats_set

SpecQuery ==
    QueryInit /\ [][QueryNext]_vars

-----------------------------------------------------------------------------
(* One resample call on a filter whose sets are large enough for the        *)
(* thresholds of the injecting resamplers to be reached: the source set     *)
(* holds two samples, in one bucket or in two.                              *)

\* the larger max_samples of the filters with a source set in two buckets
MapMaxSamples ==
    13

\* max_samples of the filter on which all 100 injections fit
MapManySamples ==
    110

\* a current set of Len(poses) samples of equal weight, as a resample leaves it
SourceSet(max, poses) ==
    LET samples == [i \in 1..Len(poses) |->
                        [pose |-> poses[i], weight |-> Rat(1, Len(poses))]]
    IN  pf_cluster_stats(
            [AllocSet(max) EXCEPT
                !.sample_count = Len(poses),
                !.samples = samples,
                !.kdtree = InsertAll(pf_kdtree_alloc(3 * max), samples, 1)])

\* the filters the call is made on: max_samples, overHead_samples and the
\* poses of the source set
MapConfigs ==
    {[max |-> m, overhead |-> o, poses |-> p] :
        m \in {MapMaxSamples - 1, MapMaxSamples}, o \in {1, 2}, p \in [1..2 -> Poses]}
    \cup {[max |-> MapManySamples, overhead |-> 1, poses |-> <<x, x>>] : x \in Poses}

MapInit ==
    /\ \E c \in MapConfigs :
            /\ max_samples = c.max
            /\ overHead_samples = c.overhead
            /\ sets = [j \in 0..1 |-> IF j = 0 THEN SourceSet(c.max, c.poses)
                                                ELSE AllocSet(c.max)]
    /\ min_samples = 1
    /\ current_set = 0
    /\ status = "ok"
    /\ fault = "none"
    /\ lastOp = "pf_alloc"
    /\ retval = NoRet
    /\ resample_parity = 0
    /\ kin = 0
    /\ kout = 0
    /\ out = NoOut
    /\ sampler = NoSampler

\* the one call of pf_update_resample_map this specification follows
resample_map_call ==
    /\ lastOp = "pf_alloc"
    /\ pf_update_resample_map

MapNext ==
    resample_map_call

SpecMap ==
    MapInit /\ [][MapNext]_vars

-----
(* Properties *)

InitOps ==
    {"pf_init", "pf_init_map", "pf_init_model", "pf_init_to_point"}

ResampleOps ==
    {"pf_update_resample", "pf_update_resample_map", "pf_update_resample_addParticle",
     "pf_update_resample_hyps", "pf_update_resample_hyps_2", "pf_update_resample_hyps_3"}

\* the weights of a set are all >= 0 and sum to 1
Normalized(set) ==
    /\ \A i \in 1..set.sample_count : RLeq(Zero, set.samples[i].weight)
    /\ WeightSum(set.samples) = One

\* C1: after any init or resample operation returns, every weight of the
\* current set is >= 0 and the weights of the current set sum to 1.
C1_WeightsSumToOne ==
    (status = "ok" /\ lastOp \in InitOps \cup ResampleOps) => Normalized(sets[A])

\* C2: current_set is 0 or 1 and equals the number of resample calls that
\* have returned, modulo 2: every resample flips it once and nothing else
\* changes it.
C2_CurrentSetIsResampleParity ==
    /\ current_set \in {0, 1}
    /\ current_set = resample_parity

\* two resamples have returned, the second of them
\* pf_update_resample_hyps_3, and current_set is back at 0
C2_TwoResamplesReturned ==
    /\ status = "ok"
    /\ lastOp = "pf_update_resample_hyps_3"
    /\ resample_parity = 0
    /\ sets[A].sample_count > 0
    /\ sets[B].sample_count > 0

\* what C3 speaks of: the sample count, the poses and weights, and the kd-tree
Source(set) ==
    [sample_count |-> set.sample_count, samples |-> set.samples, kdtree |-> set.kdtree]

\* the step is the return of one of the resamplers ops
Resampled(ops) ==
    /\ status' = "ok"
    /\ current_set' # current_set
    /\ lastOp' \in ops

\* the resamplers that leave the source set alone
ScratchOnlyOps ==
    {"pf_update_resample", "pf_update_resample_map", "pf_update_resample_addParticle",
     "pf_update_resample_hyps"}

\* C3 (amended): pf_update_resample, pf_update_resample_map,
\* pf_update_resample_addParticle and pf_update_resample_hyps write only into
\* the scratch set: the sample count, poses, weights and kd-tree of the set
\* that was current when the call started are the same when it returns.
C3_SourceSetUntouched ==
    [][Resampled(ScratchOnlyOps) =>
            Source(sets'[current_set]) = Source(sets[current_set])]_vars

\* C3 as stated: the same of every resampler, pf_update_resample_hyps_2 and
\* pf_update_resample_hyps_3 included.
C3_EveryResamplerScratchOnly ==
    [][Resampled(ResampleOps) =>
            Source(sets'[current_set]) = Source(sets[current_set])]_vars

\* pf_update_resample_map has returned; its source set, now the scratch set,
\* still holds two samples of different weight on different poses while the
\* new current set was rebuilt
C3_ResampledFromUnevenSource ==
    /\ status = "ok"
    /\ lastOp = "pf_update_resample_map"
    /\ sets[B].sample_count = 2
    /\ sets[B].samples[1].weight # sets[B].samples[2].weight
    /\ sets[B].samples[1].pose # sets[B].samples[2].pose
    /\ Source(sets[A]) # Source(sets[B])

\* C4: for each of the two sets the occupied buckets are at most the live
\* sample count, which is at most max_samples, and no operation writes a
\* sample at an index >= max_samples.
C4_WithinCapacity ==
    /\ fault # "oob_write"
    /\ status \in {"ok", "corrupt"} =>
            \A j \in 0..1 :
                /\ leaf_count(sets[j].kdtree) <= sets[j].sample_count
                /\ sets[j].sample_count <= max_samples

\* C5: the live sample count of the current set is at least min_samples and
\* at most max_samples in every state reached by init, action, sensor and
\* resample operations.
C5_AtLeastMinSamples ==
    status = "ok" =>
        /\ min_samples <= sets[A].sample_count
        /\ sets[A].sample_count <= max_samples

\* C6: pf_resample_limit(k) is min_samples for every k <= 1, lies in
\* [min_samples, max_samples] for every k, and does not decrease as k grows
\* from 2 on (min_samples <= max_samples, pop_err = 0.01, pop_z = 3).
C6_ResampleLimit ==
    /\ [](lastOp = "pf_resample_limit" =>
            /\ kin <= 1 => kout = min_samples
            /\ min_samples <= kout
            /\ kout <= max_samples)
    /\ [][(lastOp = "pf_resample_limit" /\ lastOp' = "pf_resample_limit"
                /\ 2 <= kin /\ kin <= kin') => kout <= kout']_vars

\* the limit of three buckets, strictly between min_samples and max_samples
C6_UnclampedLimit ==
    /\ lastOp = "pf_resample_limit"
    /\ kin = 3
    /\ min_samples < kout
    /\ kout < max_samples

RECURSIVE SumRange(_, _, _)
\* f[lo] + ... + f[hi]
SumRange(f, lo, hi) ==
    IF lo > hi THEN 0
    ELSE IF lo = hi THEN f[lo]
    ELSE SumRange(f, lo, (lo + hi) \div 2) + SumRange(f, (lo + hi) \div 2 + 1, hi)

\* the member counts of the clusters of a set, summed
ClusterCountSum(set) ==
    SumRange([c \in 1..set.cluster_count |-> set.clusters[c].count],
             1, set.cluster_count)

\* the weights of the clusters of a set, summed
ClusterWeightSum(set) ==
    RSum([c \in 1..set.cluster_count |-> set.clusters[c].weight], set.cluster_count)

\* the connected components the occupied buckets of a set form
Components(set) ==
    Cardinality({k \in DOMAIN set.kdtree.leaves : (k - 1) \notin DOMAIN set.kdtree.leaves})

\* the cluster table accounts for every sample and all the weight
ClusterSumsMatch(set) ==
    /\ ClusterCountSum(set) = set.sample_count
    /\ ClusterWeightSum(set) = WeightSum(set.samples)

FreeFrom(set, from, map) ==
    \A i \in from..set.sample_count : MapFree(map, set.samples[i].pose)

\* the runs of the three injecting resamplers from the present state with map
InjectingRuns(map) ==
    MapRuns(sets[A], sets[B], map)
        \cup UNION {AddParticleRuns(sets[A], sets[B], nPartToAdd, map) :
                        nPartToAdd \in ArgRange}
        \cup UNION {HypsRuns(sets[A], sets[B], nHyp, nParticle, map) :
                        nHyp \in 1..MaxHyp, nParticle \in ArgRange}

\* C8 (amended): every sample pf_init_map draws, and every sample that
\* pf_update_resample_map, pf_update_resample_hyps and
\* pf_update_resample_addParticle inject behind the copied ones, lies on a
\* valid map cell with occ_state = -1.
C8_InjectedOnFreeCells ==
    status = "ok" =>
        \A map \in Maps :
            /\ \A poses \in InitMapPoses(map) :
                    FreeFrom(InitSet(sets[A], poses), 1, map)
            /\ \A r \in InjectingRuns(map) :
                    r.end = "loop" => FreeFrom(r.set_b, r.copied + 1, map)

\* C8 as stated: every sample of the resulting set, the copied ones included.
C8_EverySampleOnFreeCell ==
    status = "ok" =>
        \A map \in Maps :
            /\ \A poses \in InitMapPoses(map) :
                    FreeFrom(InitSet(sets[A], poses), 1, map)
            /\ \A r \in InjectingRuns(map) :
                    r.end = "loop" => FreeFrom(r.set_b, 1, map)

\* pf_update_resample_map has returned a set of a copied sample that is on
\* no free cell of any map and an injected one that is
C8_CopyOffFreeCellBesideInjected ==
    /\ status = "ok"
    /\ lastOp = "pf_update_resample_map"
    /\ sets[A].sample_count = 2
    /\ \A map \in Maps : ~MapFree(map, sets[A].samples[1].pose)
    /\ \A map \in Maps : MapFree(map, sets[A].samples[2].pose)

\* C9: when the callback returns a total that is not greater than 0,
\* pf_update_sensor sets every weight of the current set to 1/n and returns
\* 1/n, leaves n and the poses as they were (current_set and the scratch set
\* are no part of what it writes), and a following resample completes.
C9_DegenerateSensorUpdate ==
    status = "ok" =>
        \A w \in SensorWeights(sets[A].sample_count) :
            \A total \in {t \in SensorTotals(w) : RLeq(t, Zero)} :
                LET r == SensorUpdate(sets[A], w, total)
                    n == sets[A].sample_count
                IN  /\ r.set.sample_count = n
                    /\ \A i \in 1..n :
                            /\ RMul(Rat(n, 1), r.set.samples[i].weight) = One
                            /\ r.set.samples[i].pose = sets[A].samples[i].pose
                    /\ RMul(Rat(n, 1), r.squareWeightSum) = One
                    /\ \A run \in ResampleRuns(r.set, sets[B], max_samples) :
                            run.end = "loop" /\ run.set_b.sample_count > 0

\* the weights w divided by their sum T
Scaled(w, T) ==
    [i \in DOMAIN w |-> RDiv(Rat(w[i], 1), T)]

\* C10: a callback that writes 1 to every weight and returns n leaves every
\* weight at 1/n, and so does the same update applied again; a callback that
\* returns T > 0, the sum of the weights w it wrote, leaves weight w[i] / T
\* on sample i, the weights sum to 1 and the value returned is the sum of
\* the squares of the w[i] / T.
C10_SensorNormalizes ==
    status = "ok" =>
        LET n     == sets[A].sample_count
            ones  == [i \in 1..n |-> 1]
            once  == SensorUpdate(sets[A], ones, Rat(n, 1))
            twice == SensorUpdate(once.set, ones, Rat(n, 1))
        IN  /\ \A i \in 1..n : RMul(Rat(n, 1), once.set.samples[i].weight) = One
            /\ twice.set.samples = once.set.samples
            /\ \A w \in SensorWeights(n) :
                    ~RLeq(SensorSum(w), Zero) =>
                        LET r == SensorUpdate(sets[A], w, SensorSum(w))
                        IN  /\ \A i \in 1..n :
                                    r.set.samples[i].weight = Scaled(w, SensorSum(w))[i]
                            /\ WeightSum(r.set.samples) = One
                            /\ r.squareWeightSum =
                                    RSum([i \in 1..n |->
                                            RMul(Scaled(w, SensorSum(w))[i],
                                                 Scaled(w, SensorSum(w))[i])], n)

\* pf_update_sensor has returned with the two weights of the current set
\* different: the callback wrote weights of sum T > 0 that were not all equal
C10_UnevenWeightsNormalized ==
    /\ status = "ok"
    /\ lastOp = "pf_update_sensor"
    /\ sets[A].sample_count = 2
    /\ sets[A].samples[1].weight # sets[A].samples[2].weight
    /\ WeightSum(sets[A].samples) = One
    /\ retval = One

\* the two cluster queries
QueryOps ==
    {"pf_get_cluster_stats", "pf_get_cluster_stats_set"}

\* C11: pf_get_cluster_stats and pf_get_cluster_stats_set return 1 and fill
\* the outputs from clusters[label] exactly when 0 <= label < cluster_count
\* of the queried set; for every other label, the negative ones included,
\* they return 0, write no output and read no entry of the cluster table.
C11_ClusterQueryInRange ==
    /\ fault # "oob_read"
    /\ (lastOp \in QueryOps /\ status \in {"ok", "corrupt"}) =>
            LET set     == sets[out.set]
                inrange == 0 <= out.clabel /\ out.clabel < set.cluster_count
            IN  /\ lastOp = "pf_get_cluster_stats" => out.set = current_set
                /\ (out.ret = 1) <=> inrange
                /\ inrange => /\ out.written
                              /\ out.weight = set.clusters[out.clabel + 1].weight
                /\ ~inrange => ~out.written /\ ~out.read

\* the runs of pf_update_resample(pf, nMaxParticles) from the present state
\* that return to the caller
ReturningResampleRuns(nMaxParticles) ==
    {r \in ResampleRuns(sets[A], sets[B], nMaxParticles) : r.end = "loop"}

\* the count n_b a run leaves is one above the limit of its occupied buckets
OneOverLimit(r) ==
    r.set_b.sample_count = pf_resample_limit(leaf_count(r.set_b.kdtree)) + 1

\* C12 (amended): pf_update_resample(N_max) with N_max >= 0 returns
\* n_b <= N_max, and whenever n_b < N_max the loop was stopped by the cutoff
\* with n_b = KLD_limit(leaf_count_b) + 1; with N_max < 0 it copies nothing
\* and returns n_b = 0, which is above N_max.
C12_CutoffAfterEachInsert ==
    status = "ok" =>
        \A nMaxParticles \in ArgRange : \A r \in ReturningResampleRuns(nMaxParticles) :
            /\ nMaxParticles >= 0 => r.set_b.sample_count <= nMaxParticles
            /\ nMaxParticles < 0 => r.set_b.sample_count = 0
            /\ r.set_b.sample_count < nMaxParticles => OneOverLimit(r)

\* C12 as stated: n_b <= N_max on return for every N_max.
C12_CountAtMostNMax ==
    status = "ok" =>
        \A nMaxParticles \in ArgRange : \A r \in ReturningResampleRuns(nMaxParticles) :
            /\ r.set_b.sample_count <= nMaxParticles
            /\ r.set_b.sample_count < nMaxParticles => OneOverLimit(r)

\* pf_update_resample has returned a set one sample above the limit of its
\* buckets, and from there a call with a larger N_max stops below N_max, one
\* sample above the limit again
C12_StoppedByCutoffBelowNMax ==
    /\ status = "ok"
    /\ lastOp = "pf_update_resample"
    /\ sets[A].sample_count = pf_resample_limit(leaf_count(sets[A].kdtree)) + 1
    /\ \E nMaxParticles \in ArgRange : \E r \in ReturningResampleRuns(nMaxParticles) :
            /\ 0 < r.set_b.sample_count
            /\ r.set_b.sample_count < nMaxParticles
            /\ OneOverLimit(r)

\* C13: pf_update_resample_map resamples with N_max = max_samples -
\* overHead_samples; when the resampled count n_b is below min_samples + 10
\* it appends samples of weight 1.0 (1/n once normalized), at most 100 of
\* them, stopping when the set holds max_samples; when n_b >= min_samples +
\* 10 nothing is injected and the final count is n_b.
C13_MapInjection ==
    (status = "ok" /\ lastOp = "pf_alloc") =>
        \A map \in Maps : \A r \in MapRuns(sets[A], sets[B], map) :
            r.end = "loop" =>
                LET n_b == r.copied
                    n   == r.set_b.sample_count
                IN  /\ n_b <= max_samples - overHead_samples
                    /\ n_b >= min_samples + MapInjectMargin => n = n_b
                    /\ n_b < min_samples + MapInjectMargin =>
                            /\ n - n_b <= MapInjectMax
                            /\ n <= max_samples
                            /\ n = max_samples \/ n - n_b = MapInjectMax
                    /\ \A i \in (n_b + 1)..n :
                            /\ MapFree(map, r.set_b.samples[i].pose)
                            /\ RMul(Rat(n, 1), r.set_b.samples[i].weight) = One

\* pf_update_resample_map has returned a set of at least min_samples + 10
\* samples and fewer than max_samples: nothing was injected
C13_NothingInjected ==
    /\ status = "ok"
    /\ lastOp = "pf_update_resample_map"
    /\ min_samples + MapInjectMargin <= sets[A].sample_count
    /\ sets[A].sample_count < max_samples

\* the runs of pf_update_resample_addParticle(pf, nPartToAdd, map) from the
\* present state that reach the end of the two loops
AddParticleLoopRuns(nPartToAdd, map) ==
    {r \in AddParticleRuns(sets[A], sets[B], nPartToAdd, map) : r.end = "loop"}

\* what C14 says of a run r of pf_update_resample_addParticle with k
AddParticleCounts(r, k) ==
    /\ r.copied <= max_samples - k
    /\ r.set_b.sample_count = r.copied + k
    /\ r.set_b.sample_count <= max_samples

\* C14: pf_update_resample_addParticle(k, map) resamples with N_max =
\* max_samples - k and appends exactly k map-uniform samples: the final
\* count is n_resampled + k with n_resampled <= max_samples - k and never
\* exceeds max_samples, for every k the caller passes.
C14_AddParticleCounts ==
    status = "ok" =>
        \A nPartToAdd \in ArgRange : \A map \in Maps :
            \A r \in AddParticleLoopRuns(nPartToAdd, map) :
                AddParticleCounts(r, nPartToAdd)

\* the runs of pf_update_resample_hyps(pf, map, nHyp, hyps, nParticle) from
\* the present state that reach the end of the loops
HypsLoopRuns(nHyp, nParticle, map) ==
    {r \in HypsRuns(sets[A], sets[B], nHyp, nParticle, map) : r.end = "loop"}

C16_Hyps3Terminates ==
    /\ ~(status = "hung" /\ fault = "hyps3_loop")
    /\ status = "ok" =>
            \A nHyp \in 1..MaxHyp : \A map \in Maps :
                \A r \in Hyps3Runs(sets[A], sets[B], nHyp, map) :
                    /\ r.end # "hung"
                    /\ r.end = "loop" =>
                            r.set_b.sample_count - r.copied
                                <= nHyp * ((max_samples - Hyps3ReqSamples(sets[A])) \div nHyp)

-----------------------------------------------------------------------------
(* The map-constrained uniform sampler on its own: the do-while loop that   *)
(* pf_init_map, pf_update_resample_map and pf_update_resample_addParticle   *)
(* run for each sample they place, one step for each turn of the loop.      *)
(* The sample sets play no part in it and are left as pf_alloc made them.   *)

\* the most cells of a map
SamplerSize == 2

\* the half-metres of a cell
SamplerScale == 4

\* how far the origin of a map lies from the origin of the world
SamplerOrigin == 8

\* the maps: any state for every cell, centred on the world's origin or away
\* from it
SamplerMaps ==
    {[size_x |-> Len(cells), scale |-> SamplerScale, origin_x |-> o, cells |-> cells] :
        cells \in UNION {[1..n -> {-1, 0, 1}] : n \in 1..SamplerSize},
        o \in {0, SamplerOrigin}}

\* (gsl_rng_uniform_pos(r) - 0.5) * map->size_x * map->scale, in half-metres:
\* the values strictly between -size_x * scale / 2 and size_x * scale / 2
SamplerDraws(map) ==
    {x \in (0 - map.size_x * map.scale)..(map.size_x * map.scale) :
        /\ 2 * x > 0 - map.size_x * map.scale
        /\ 2 * x < map.size_x * map.scale}

SamplerCallers ==
    {"pf_init_map", "pf_update_resample_map", "pf_update_resample_addParticle"}

SamplerInit ==
    /\ \E map \in SamplerMaps, caller \in SamplerCallers :
            sampler = [NoSampler EXCEPT !.map = map, !.caller = caller]
    /\ min_samples = MinSamples
    /\ max_samples = MaxSamples
    /\ overHead_samples = 0
    /\ current_set = 0
    /\ sets = [j \in 0..1 |-> AllocSet(MaxSamples)]
    /\ status = "ok"
    /\ fault = "none"
    /\ lastOp = "pf_alloc"
    /\ retval = NoRet
    /\ resample_parity = 0
    /\ kin = 0
    /\ kout = 0
    /\ out = NoOut

\* the caller comes to the loop for its next sample: int correct = 0; do
sampler_call ==
    /\ sampler.pc \in {"idle", "returned"}
    /\ sampler' = [sampler EXCEPT !.pc = "do", !.correct = FALSE,
                                   !.drawn = FALSE, !.redrawn = FALSE]
    /\ UNCHANGED <<min_samples, max_samples, overHead_samples, current_set, sets,
                   status, fault, lastOp, retval, resample_parity, kin, kout, out>>

\* one turn of the loop with x the value drawn: the draw, the test of its
\* cell, and the test of while (!correct)
sampler_draw(x) ==
    /\ sampler.pc = "do"
    /\ x \in SamplerDraws(sampler.map)
    /\ LET correct == sampler.correct \/ MapFree(sampler.map, x)
       IN  sampler' = [sampler EXCEPT
                        !.tmp = x,
                        !.ix = MAP_GXWX(sampler.map, x),
                        !.drawn = TRUE,
                        !.correct = correct,
                        !.redrawn = sampler.redrawn \/ ~correct,
                        !.pc = IF correct THEN "out" ELSE "do"]
    /\ UNCHANGED <<min_samples, max_samples, overHead_samples, current_set, sets,
                   status, fault, lastOp, retval, resample_parity, kin, kout, out>>

\* the loop is left: sample->pose = tmp
sampler_return ==
    /\ sampler.pc = "out"
    /\ sampler' = [sampler EXCEPT !.pose = sampler.tmp, !.pc = "returned"]
    /\ UNCHANGED <<min_samples, max_samples, overHead_samples, current_set, sets,
                   status, fault, lastOp, retval, resample_parity, kin, kout, out>>

SamplerNext ==
    \/ sampler_call
    \/ \E x \in (0 - SamplerSize * SamplerScale)..(SamplerSize * SamplerScale) :
            sampler_draw(x)
    \/ sampler_return

\* the program keeps running: a step that can be taken is taken
SpecSampler ==
    SamplerInit /\ [][SamplerNext]_vars /\ WF_vars(SamplerNext)

\* the cells of the largest map
SamplerCells ==
    0..(SamplerSize - 1)

\* cell c of the sampler's map is free
CellFree(c) ==
    /\ c >= 0
    /\ c < sampler.map.size_x
    /\ sampler.map.cells[c + 1] = -1

\* C17: the sampler redraws until a draw lands on a valid cell with
\* occ_state -1 and returns that first accepted draw; if the map has a free
\* cell and every cell of the map is drawn infinitely often, every call
\* returns; if the map has no free cell, no call returns.
C17_SamplerReturnsFirstFreeDraw ==
    /\ [](sampler.pc \in {"out", "returned"} => CellFree(sampler.ix))
    /\ [](sampler.pc = "returned" =>
            sampler.pose = sampler.tmp /\ sampler.ix = MAP_GXWX(sampler.map, sampler.pose))
    /\ [][/\ sampler.pc = "do" /\ sampler'.drawn /\ CellFree(sampler'.ix)
                => sampler'.pc = "out"
          /\ sampler.pc = "do" /\ sampler'.drawn /\ ~CellFree(sampler'.ix)
                => sampler'.pc = "do"
          /\ sampler.pc = "out" => sampler'.pc = "returned" /\ sampler'.pose = sampler.tmp]_vars
    /\ ((\E c \in SamplerCells : CellFree(c))
            /\ (\A c \in SamplerCells :
                    []<>(c >= sampler.map.size_x \/ (sampler.drawn /\ sampler.ix = c))))
        => ((sampler.pc = "do") ~> (sampler.pc = "returned"))
    /\ (~\E c \in SamplerCells : CellFree(c))
        => [](sampler.pc \notin {"out", "returned"})

\* a call has returned a draw after it rejected another
C17_ReturnedAfterRedraw ==
    /\ sampler.pc = "returned"
    /\ sampler.redrawn
    /\ CellFree(sampler.ix)
    /\ sampler.pose = sampler.tmp

\* the step is the return of one of the init operations
Initialized ==
    /\ status = "ok"
    /\ status' = "ok"
    /\ lastOp' \in InitOps

\* C18: each init operation acts on the set that is current at call time
\* only: that set's kd-tree holds the buckets of the new samples and no
\* other, its n is max_samples, every sample has weight 1/max_samples, and
\* its cluster statistics are those of the new samples; current_set and the
\* whole scratch set (samples, count, kd-tree, clusters) are unchanged.
C18_InitActsOnCurrentSetOnly ==
    [][Initialized =>
            /\ current_set' = current_set
            /\ sets'[1 - current_set] = sets[1 - current_set]
            /\ LET set == sets'[current_set]
               IN  /\ set.sample_count = max_samples
                   /\ Len(set.samples) = max_samples
                   /\ \A i \in 1..max_samples :
                        set.samples[i].weight = Rat(1, max_samples)
                   /\ DOMAIN set.kdtree.leaves
                        = {KdKey(set.samples[i].pose) : i \in 1..max_samples}
                   /\ set.cluster_count = Components(set)
                   /\ ClusterSumsMatch(set)]_vars

\* pf_init_model has returned after a resample made set 1 the current set:
\* the scratch set is the source of that resample with its uneven weights,
\* and the new samples lie in one bucket
C18_InitAfterResample ==
    /\ status = "ok"
    /\ lastOp = "pf_init_model"
    /\ current_set = 1
    /\ max_samples = 2
    /\ Len(sets[0].samples) = 2
    /\ sets[0].samples[1].weight # sets[0].samples[2].weight
    /\ sets[1].sample_count = max_samples
    /\ leaf_count(sets[1].kdtree) = 1
    /\ sets[1].cluster_count = 1

AllResampleRuns ==
    UNION ({ResampleRuns(sets[A], sets[B], n) : n \in ArgRange}
        \cup {AddParticleRuns(sets[A], sets[B], k, map) : k \in ArgRange, map \in Maps}
        \cup {MapRuns(sets[A], sets[B], map) : map \in Maps}
        \cup {HypsRuns(sets[A], sets[B], nHyp, nParticle, map) :
                nHyp \in 1..MaxHyp, nParticle \in ArgRange, map \in Maps}
        \cup {Hyps2Runs(sets[A], sets[B], nHyp, map) : nHyp \in 1..MaxHyp, map \in Maps}
        \cup {Hyps3Runs(sets[A], sets[B], nHyp, map) : nHyp \in 1..MaxHyp, map \in Maps})

\* the poses of the samples of set whose weight is > 0
PositivePoses(set) ==
    {set.samples[i].pose : i \in pf_pdf_discrete_sample(set)}

C21_SourceSetHasWeight ==
    /\ fault # "empty_pdf"
    /\ status = "ok" =>
            /\ sets[A].sample_count >= 1
            /\ ~RLeq(WeightSum(sets[A].samples), Zero)
            /\ pf_pdf_discrete_alloc(sets[A])

\* the operations that end with pf_cluster_stats
StatsOps ==
    InitOps \cup ResampleOps \cup {"pf_update_action_update_cluster"}

====
